---- MODULE Spec2Model ----
(***************************************************************************)
(* Model of the CCS collateral crawler (ccs_crawler.py) and of the output  *)
(* auditor (validate_outputs.py).                                          *)
(*                                                                         *)
(* File names are sequences of one-character strings, so that the          *)
(* substring, prefix, suffix and extension tests of the code are computed  *)
(* and not assumed.  A file content is a record                            *)
(*   [size |-> bytes, head |-> first four bytes, entries |-> zip members]. *)
(***************************************************************************)
EXTENDS Integers, Sequences, FiniteSets, TLC

(***************************************************************************)
(* Bounds of the model.                                                    *)
(***************************************************************************)
\* members of an unpacked archive that one promotion pass distributes
MaxBatchLen == 2
\* invocations of main() over the same output root
MaxRuns == 2
\* members of an archive handed to clean_zip
MaxMembers == 2
\* consecutive calls of clean_zip on one archive
MaxCleanCalls == 2
\* --download-timeout in seconds, one poll of wait_for_download a second
WaitTimeout == 4

(***************************************************************************)
(* Strings as character sequences.                                         *)
(***************************************************************************)
UpperChars == <<"A","B","C","D","E","F","G","H","I","J","K","L","M",
                "N","O","P","Q","R","S","T","U","V","W","X","Y","Z">>
LowerChars == <<"a","b","c","d","e","f","g","h","i","j","k","l","m",
                "n","o","p","q","r","s","t","u","v","w","x","y","z">>

\* str.lower() on one character
LowerChar(c) ==
    IF \E i \in 1..Len(UpperChars) : UpperChars[i] = c
    THEN LowerChars[CHOOSE i \in 1..Len(UpperChars) : UpperChars[i] = c]
    ELSE c

\* str.lower()
Lower(s) == [i \in 1..Len(s) |-> LowerChar(s[i])]

\* str.startswith
StartsWith(s, p) ==
    /\ Len(p) <= Len(s)
    /\ SubSeq(s, 1, Len(p)) = p

\* str.endswith
EndsWith(s, p) ==
    /\ Len(p) <= Len(s)
    /\ SubSeq(s, Len(s) - Len(p) + 1, Len(s)) = p

\* the Python test `p in s` on strings
Contains(s, p) ==
    \E i \in 0..(Len(s) - Len(p)) : SubSeq(s, i + 1, i + Len(p)) = p

\* positions of "." in s
DotPositions(s) == { i \in 1..Len(s) : s[i] = "." }

SetMax(S) == CHOOSE x \in S : \A y \in S : y <= x
SetMin(S) == CHOOSE x \in S : \A y \in S : x <= y

\* pathlib's Path(name).suffix: the text from the last dot on, unless that
\* dot is the first or the last character of the name
PathSuffix(s) ==
    IF DotPositions(s) = {} THEN <<>>
    ELSE LET i == SetMax(DotPositions(s))
         IN  IF i > 1 /\ i < Len(s) THEN SubSeq(s, i, Len(s)) ELSE <<>>

\* name.split(".")[0]
FirstDotPart(s) ==
    IF DotPositions(s) = {} THEN s
    ELSE SubSeq(s, 1, SetMin(DotPositions(s)) - 1)

(***************************************************************************)
(* Program constants of ccs_crawler.py.                                    *)
(***************************************************************************)
\* PDF_MAGIC = b"%PDF"
PDF_MAGIC == "%PDF"

SfxManual    == <<"_","M","a","n","u","a","l">>
SfxCatalog   == <<"_","C","a","t","a","l","o","g">>
SfxDimension == <<"_","D","i","m","e","n","s","i","o","n">>
SfxDXF       == <<"_","D","X","F">>
SfxSTEP      == <<"_","S","T","E","P">>
SfxDatasheet == <<"_","D","a","t","a","s","h","e","e","t">>
ExtPdf  == <<".","p","d","f">>
ExtZip  == <<".","z","i","p">>
ExtGz   == <<".","g","z">>
ExtRar  == <<".","r","a","r">>
ExtStp  == <<".","s","t","p">>
ExtStepLong == <<".","s","t","e","p">>
ExtPng  == <<".","p","n","g">>

KwManual    == <<"m","a","n","u","a","l">>
KwCatalog   == <<"c","a","t","a","l","o","g">>
KwDimension == <<"d","i","m","e","n","s","i","o","n">>
KwDimensionDrawing ==
    <<"d","i","m","e","n","s","i","o","n"," ","d","r","a","w","i","n","g">>
KwDxf       == <<"d","x","f">>
KwStep      == <<"s","t","e","p">>
KwDatasheet == <<"d","a","t","a","s","h","e","e","t">>
KwDataSheet == <<"d","a","t","a"," ","s","h","e","e","t">>
KwDataDashSheet == <<"d","a","t","a","-","s","h","e","e","t">>
KwDrawing   == <<"d","r","a","w","i","n","g">>

Entry(kw, suffix, ext) == [kw |-> kw, suffix |-> suffix, ext |-> ext]

\* the value None of suffix_entry
NoEntry == Entry(<<>>, <<>>, <<>>)

\* the ordered table DOWNLOAD_KEYWORDS
DOWNLOAD_KEYWORDS == <<
    Entry(KwManual,           SfxManual,    ExtPdf),
    Entry(KwCatalog,          SfxCatalog,   ExtPdf),
    Entry(KwDimension,        SfxDimension, ExtPdf),
    Entry(KwDimensionDrawing, SfxDimension, ExtPdf),
    Entry(KwDxf,              SfxDXF,       ExtZip),
    Entry(KwStep,             SfxSTEP,      ExtZip),
    Entry(KwDatasheet,        SfxDatasheet, ExtPdf),
    Entry(KwDataSheet,        SfxDatasheet, ExtPdf) >>

\* the name of the completion marker written by process_product
MarkerName == <<".","c","o","m","p","l","e","t","e">>

(***************************************************************************)
(* Files and directories.                                                  *)
(*   content: [size, head, zip, entries, deflated]                         *)
(*     size      bytes of the file                                         *)
(*     head      its first four bytes                                      *)
(*     zip       whether zipfile can open it                               *)
(*     entries   the member names of the archive (<<>> when not a zip)     *)
(*     deflated  the size of its bytes after DEFLATE compression           *)
(*   a directory listing is a function from file names to contents.        *)
(***************************************************************************)
Data(size, head, zip, entries, deflated) ==
    [size |-> size, head |-> head, zip |-> zip, entries |-> entries,
     deflated |-> deflated]

EmptyMap == [n \in {} |-> 0]

\* writing (or overwriting) the file `name` of a listing
Put(m, name, data) ==
    [n \in (DOMAIN m) \cup {name} |-> IF n = name THEN data ELSE m[n]]

\* unlinking the file `name` of a listing
Del(m, name) == [n \in (DOMAIN m) \ {name} |-> m[n]]

\* a product directory: absent, or its regular files and its Images/ folder
NoDir == [exists |-> FALSE, files |-> EmptyMap, imgdir |-> FALSE,
          images |-> EmptyMap]

\* is_pdf(path): the first four bytes are the PDF signature
is_pdf(data) == data.head = PDF_MAGIC

\* the archive that shutil.make_archive builds around one file: one entry
\* named after the file, local header + central directory + end record
WrapZip(file) ==
    Data(98 + 2 * Len(file.name) + file.data.deflated, "PK34", TRUE,
         <<file.name>>, 98 + 2 * Len(file.name) + file.data.deflated)

(***************************************************************************)
(* distribute_file: classification and promotion of one raw file.          *)
(***************************************************************************)
\* _looks_like_dimension(name_lower, context)
looks_like_dimension(name_lower, code) ==
    LET stem == FirstDotPart(name_lower)
    IN  \/ Contains(stem, KwDimension)
        \/ Contains(stem, KwDrawing)
        \/ /\ EndsWith(stem, <<"_","e">>)
           /\ StartsWith(stem, Lower(code))

\* the last entry of DOWNLOAD_KEYWORDS whose keyword occurs in the name
KeywordEntry_Last(name_lower) ==
    LET hits == { i \in 1..Len(DOWNLOAD_KEYWORDS) :
                    Contains(name_lower, DOWNLOAD_KEYWORDS[i].kw) }
    IN  IF hits = {} THEN NoEntry ELSE DOWNLOAD_KEYWORDS[SetMax(hits)]

\* the first entry of DOWNLOAD_KEYWORDS whose keyword occurs in the name
KeywordEntry(name_lower) ==
    LET hits == { i \in 1..Len(DOWNLOAD_KEYWORDS) :
                    Contains(name_lower, DOWNLOAD_KEYWORDS[i].kw) }
    IN  IF hits = {} THEN NoEntry ELSE DOWNLOAD_KEYWORDS[SetMin(hits)]

\* the suffix_entry that distribute_file settles on for a file name
Classify(name, code) ==
    LET name_lower == Lower(name)
        byKeyword  == KeywordEntry(name_lower)
    IN  IF byKeyword # NoEntry THEN byKeyword
        ELSE IF StartsWith(name_lower, <<"c","_">>)
             THEN Entry(KwCatalog, SfxCatalog, ExtPdf)
        ELSE IF StartsWith(name_lower, <<"d","_">>)
             THEN Entry(KwDimension, SfxDimension, ExtPdf)
        ELSE IF StartsWith(name_lower, <<"m","_">>)
                /\ ~Contains(name_lower, KwDatasheet)
             THEN Entry(KwManual, SfxManual, ExtPdf)
        ELSE IF Contains(name_lower, KwDatasheet)
                \/ Contains(name_lower, KwDataDashSheet)
             THEN Entry(KwDatasheet, SfxDatasheet, ExtPdf)
        ELSE IF looks_like_dimension(name_lower, code)
             THEN Entry(KwDimension, SfxDimension, ExtPdf)
        ELSE IF Contains(name_lower, Lower(code))
                /\ Lower(PathSuffix(name)) = ExtPdf
             THEN Entry(KwDatasheet, SfxDatasheet, ExtPdf)
        ELSE IF Lower(PathSuffix(name)) \in {ExtStp, ExtStepLong}
             THEN Entry(KwStep, SfxSTEP, ExtZip)
        ELSE NoEntry

\* a target path built without the extension
TargetName_NoExt(code, suffix, ext) == code \o suffix

\* the canonical path <code><suffix><ext> inside the product directory
TargetName(code, suffix, ext) == code \o suffix \o ext

\* distribute_file(file_path, context, dest_dir): the listing of dest_dir
\* after the call, for a raw file [name, data]
distribute_file(file, code, files) ==
    LET suffix_entry == Classify(file.name, code)
    IN  IF suffix_entry = NoEntry THEN files
        ELSE IF suffix_entry.ext = ExtPdf /\ ~is_pdf(file.data) THEN files
        ELSE IF suffix_entry.ext = ExtZip
             THEN IF Lower(PathSuffix(file.name)) \in {ExtZip, ExtGz, ExtRar}
                  THEN Put(files,
                           TargetName(code, suffix_entry.suffix, ExtZip),
                           file.data)
                  ELSE Put(files,
                           TargetName(code, suffix_entry.suffix, <<>>) \o ExtZip,
                           WrapZip(file))
        ELSE Put(files,
                 TargetName(code, suffix_entry.suffix, suffix_entry.ext),
                 file.data)

\* the loop of process_zip / transform_downloads over a sequence of raw
\* files, in the order the directory walk yields them
RECURSIVE distribute_all(_, _, _)
distribute_all(raws, code, files) ==
    IF raws = <<>> THEN files
    ELSE distribute_all(Tail(raws), code,
                        distribute_file(Head(raws), code, files))

(***************************************************************************)
(* _required_files_present: the acquisition-time completeness check.       *)
(***************************************************************************)
\* the list `required` of _required_files_present, in its order
RequiredSuffixes == <<
    SfxCatalog \o ExtPdf,
    SfxDimension \o ExtPdf,
    SfxDXF \o ExtZip,
    SfxSTEP \o ExtZip,
    SfxManual \o ExtPdf >>

\* a loop that forgives the absence of the manual only
SkippableSuffixes_ManualOnly == { SfxManual \o ExtPdf }

\* the suffixes whose absence the loop skips over
SkippableSuffixes == { SfxManual \o ExtPdf, SfxSTEP \o ExtZip }

\* matching_files: the names of the listing that end with the suffix
MatchingFiles(files, suffix) == { n \in DOMAIN files : EndsWith(n, suffix) }

Verdict(ok, why, file) == [ok |-> ok, why |-> why, file |-> file]

\* the checks made on the one file picked for a suffix
CheckPicked(files, code, suffix, name) ==
    IF files[name].size < 1000 THEN "small"
    ELSE IF EndsWith(suffix, ExtPdf) /\ ~is_pdf(files[name]) THEN "notpdf"
    ELSE IF ~Contains(name, code) THEN "nocode"
    ELSE "ok"

\* the image test that ends _required_files_present
ImagePresent(dir) ==
    /\ dir.imgdir
    /\ \E n \in DOMAIN dir.images : dir.images[n].size > 1000

\* the verdicts the loop can reach from the i-th required suffix on.
\* matching_files[0] is the first name in the iteration order of a Python
\* set of strings, which is any of the matching names.
RECURSIVE VerdictsFrom(_, _, _)
VerdictsFrom(i, dir, code) ==
    IF i > Len(RequiredSuffixes)
    THEN IF ImagePresent(dir) THEN { Verdict(TRUE, "ok", <<>>) }
         ELSE { Verdict(FALSE, "noimage", <<>>) }
    ELSE LET suffix == RequiredSuffixes[i]
             matching_files == MatchingFiles(dir.files, suffix)
         IN  IF matching_files = {}
             THEN IF suffix \in SkippableSuffixes
                  THEN VerdictsFrom(i + 1, dir, code)
                  ELSE { Verdict(FALSE, "missing", suffix) }
             ELSE UNION {
                    IF CheckPicked(dir.files, code, suffix, n) = "ok"
                    THEN VerdictsFrom(i + 1, dir, code)
                    ELSE { Verdict(FALSE,
                                   CheckPicked(dir.files, code, suffix, n), n) }
                    : n \in matching_files }

\* _required_files_present(dest_dir): every verdict the call can return,
\* with the reason and the file that decided a negative one
required_files_present(dir, code) == VerdictsFrom(1, dir, code)

(***************************************************************************)
(* The environment: the catalogue the site serves and what it delivers.    *)
(***************************************************************************)
Raw(name, data) == [name |-> name, data |-> data]

\* the product codes of the series, in table order
Products == << <<"X","1">> >>

PdfBig   == Data(2000, "%PDF", FALSE, <<>>, 500)
HtmlPage == Data(2000, "<htm", FALSE, <<>>, 500)

\* the files an unpacked archive of the site can hold
RawPool == {
    Raw(<<"c","a","t","a","l","o","g",".","p","d","f">>, PdfBig),
    Raw(<<"C","a","t","a","l","o","g",".","P","D","F">>, HtmlPage),
    Raw(<<"d","_","x","1",".","p","d","f">>, PdfBig),
    Raw(<<"d","x","f",".","r","a","r">>,
        Data(1500, "Rar!", FALSE, <<>>, 1500)),
    Raw(<<"x","1",".","d","x","f">>, Data(4000, "0SEC", FALSE, <<>>, 900)) }

\* every order in which a directory walk can yield at most n pool files
RECURSIVE WalksUpTo(_)
WalksUpTo(n) ==
    IF n = 0 THEN { <<>> }
    ELSE WalksUpTo(n - 1) \cup
         { Append(w, r) : w \in { v \in WalksUpTo(n - 1) : Len(v) = n - 1 },
                          r \in RawPool }

\* what lands in the scratch directory from the CAD portal
CadDownloads == {
    Raw(<<"X","1",".","s","t","e","p">>, Data(3000, "ISO-", FALSE, <<>>, 700)) }

\* what lands in the scratch directory from the consolidated download: an
\* archive, or an error page saved under the archive's name
BatchDownloads == {
    Raw(<<"b","a","t","c","h",".","z","i","p">>,
        Data(9000, "PK34", TRUE, <<>>, 9000)),
    Raw(<<"d","o","c","s",".","z","i","p">>,
        Data(300, "<htm", FALSE, <<>>, 200)) }

\* the bodies the manual link of a product page can answer with
ManualResponses == { PdfBig, HtmlPage }

\* the thumbnails the image request can answer with: extension and bytes
ImageResponses == { Raw(ExtPng, Data(5000, "PNG.", FALSE, <<>>, 5000)) }

\* the values of --max-products the runs are started with
MaxProductsArgs == { 0 }

\* the text "ok" that process_product writes into the marker
MarkerData == Data(2, "ok", FALSE, <<>>, 2)

(***************************************************************************)
(* State of a crawler process working on an output root.                   *)
(***************************************************************************)
VARIABLES
    run,              \* invocations of main() so far
    args,             \* the parsed arguments of the running invocation
    pc,               \* where the invocation stands
    idx,              \* position of the product loop of crawl()
    processed_count,  \* crawl()'s count of products reported true
    attempt,          \* the loop variable of process_product
    fs,               \* the output root: product code -> product directory
    scratch,          \* temp_download_dir: its files, oldest first
    downloads,        \* the list collect_required_documents is filling
    outcome,          \* how process_product ended for each product
    lastCheck,        \* the verdict _required_files_present has just returned
    audit,            \* validate_outputs: the value its last call returned
    poll,             \* wait_for_download: its loop, poll by poll
    browser,          \* the driver's windows, the site's cart, downloads in flight
    proc              \* the process: exit code, driver and scratch directory

vars == << run, args, pc, idx, processed_count, attempt, fs, scratch,
           downloads, outcome, lastCheck, audit, poll, browser, proc >>

ProductSet == { Products[i] : i \in 1..Len(Products) }

NoCheck == Verdict(TRUE, "none", <<>>)

\* validate_outputs has not been called; wait_for_download is not polling
NoAudit == << >>
NoPoll == [at |-> "idle"]

\* no browser state and no process state of interest
NoBrowser == [tabs |-> 1]
NoProc == [exit |-> "running"]

Init ==
    /\ run = 0
    /\ args = [overwrite |-> FALSE, max_products |-> 0]
    /\ pc = "boot"
    /\ idx = 1
    /\ processed_count = 0
    /\ attempt = 0
    /\ fs = [c \in ProductSet |-> NoDir]
    /\ scratch = <<>>
    /\ downloads = <<>>
    /\ outcome = [c \in ProductSet |-> "none"]
    /\ lastCheck = NoCheck
    /\ audit = NoAudit
    /\ poll = NoPoll
    /\ browser = NoBrowser
    /\ proc = NoProc

\* the product process_product is working on
Current == Products[idx]

\* process_product returns to the loop of crawl (lines 302-304): False for
\* "skipped" (line 312) and "norow" (lines 326, 337), True for "true"
Returned(how) ==
    /\ outcome' = [outcome EXCEPT ![Current] = how]
    /\ processed_count' = IF how = "true" THEN processed_count + 1
                                          ELSE processed_count
    /\ idx' = idx + 1
    /\ pc' = "crawl"

\* an exception leaves process_product and is caught by crawl (lines 305-307)
Raised ==
    /\ outcome' = [outcome EXCEPT ![Current] = "raised"]
    /\ idx' = idx + 1
    /\ pc' = "crawl"
    /\ UNCHANGED processed_count

\* main(): a new invocation with its own arguments and scratch directory
MainStart ==
    /\ pc \in {"boot", "exit"}
    /\ run < MaxRuns
    /\ run' = run + 1
    /\ \E ow \in BOOLEAN, mp \in MaxProductsArgs :
          args' = [overwrite |-> ow, max_products |-> mp]
    /\ pc' = "crawl"
    /\ idx' = 1
    /\ processed_count' = 0
    /\ attempt' = 0
    /\ scratch' = <<>>
    /\ downloads' = <<>>
    /\ outcome' = [c \in ProductSet |-> "none"]
    /\ lastCheck' = NoCheck
    /\ UNCHANGED << fs, audit, poll, browser, proc >>

\* crawl(): the product loop ends, or max_products is reached
CrawlReturn ==
    /\ pc = "crawl"
    /\ \/ idx > Len(Products)
       \/ /\ idx <= Len(Products)
          /\ args.max_products # 0
          /\ processed_count >= args.max_products
    /\ pc' = "exit"
    /\ lastCheck' = NoCheck
    /\ poll' = NoPoll
    /\ UNCHANGED << browser, proc, audit, run, args, idx, processed_count, attempt, fs,
                    scratch, downloads, outcome >>

\* process_product, lines 310-314: skip an existing directory, or create
\* the directory and its Images/ folder and enter the attempt loop
ProcessProductEnter ==
    /\ pc = "crawl"
    /\ idx <= Len(Products)
    /\ ~(args.max_products # 0 /\ processed_count >= args.max_products)
    /\ attempt' = 0
    /\ lastCheck' = NoCheck
    /\ IF fs[Current].exists /\ ~args.overwrite
       THEN /\ Returned("skipped")
            /\ UNCHANGED fs
       ELSE /\ fs' = [fs EXCEPT ![Current] =
                        [@ EXCEPT !.exists = TRUE, !.imgdir = TRUE]]
            /\ pc' = "lookup1"
            /\ UNCHANGED << idx, processed_count, outcome >>
    /\ poll' = NoPoll
    /\ UNCHANGED << browser, proc, audit, run, args, scratch, downloads >>

\* cleanup_dest_dir(dest_dir)
cleanup_dest_dir_Keep(dir) == dir
cleanup_dest_dir(dir) == NoDir

\* lines 317-326 and 331-337: reload the series page and look the row up
FindRow(here, next) ==
    /\ pc = here
    /\ \E found \in {"row", "none", "raise"} :
          CASE found = "row" ->
                  /\ pc' = next
                  /\ UNCHANGED << idx, processed_count, outcome, fs >>
            [] found = "none" ->
                  /\ fs' = [fs EXCEPT ![Current] = cleanup_dest_dir(@)]
                  /\ Returned("norow")
            [] found = "raise" ->
                  /\ Raised
                  /\ UNCHANGED fs
    /\ lastCheck' = NoCheck
    /\ UNCHANGED << browser, proc, audit, poll, run, args, attempt, scratch, downloads >>

Lookup1 == FindRow("lookup1", "image")

Lookup2 == FindRow("lookup2", "cad")

\* download_product_image under contextlib.suppress (lines 327-328, 355-366)
DownloadImage ==
    /\ pc = "image"
    /\ \/ UNCHANGED fs
       \/ \E r \in ImageResponses :
             fs' = [fs EXCEPT ![Current].images =
                      Put(@, Current \o r.name, r.data)]
    /\ pc' = "manual"
    /\ UNCHANGED << browser, proc, audit, poll, run, args, idx, processed_count, attempt, scratch,
                    downloads, outcome, lastCheck >>

\* download_product_manual(context, dest_dir): the listing after the call
\* when the manual link answers with `body`
download_product_manual(files, code, overwrite, body) ==
    LET manual_path == code \o SfxManual \o ExtPdf
    IN  IF manual_path \in DOMAIN files /\ ~overwrite THEN files
        ELSE Put(files, manual_path, body)

\* download_product_manual under contextlib.suppress (lines 329-330)
DownloadManual ==
    /\ pc = "manual"
    /\ \/ UNCHANGED fs
       \/ \E body \in ManualResponses :
             fs' = [fs EXCEPT ![Current].files =
                      download_product_manual(@, Current, args.overwrite, body)]
    /\ pc' = "lookup2"
    /\ UNCHANGED << browser, proc, audit, poll, run, args, idx, processed_count, attempt, scratch,
                    downloads, outcome, lastCheck >>

\* the names of the files of the scratch directory
ScratchNames(files) == { files[i].name : i \in 1..Len(files) }

\* wait_for_download(label, timeout, ignore_existing) when the files
\* `landed` arrive, oldest first, while it polls: the most recently
\* modified file that is not in the ignore set, or <<>> for DownloadTimeout
wait_for_download(present, landed, ignore_existing) ==
    LET all == present \o landed
        new == { i \in 1..Len(all) : all[i].name \notin ignore_existing }
    IN  IF new = {} THEN <<>> ELSE << all[SetMax(new)] >>

\* clear_download_dir (line 338), then fetch_step_file under
\* contextlib.suppress (lines 416-419, 519-546): no CAD link or no new tab,
\* or a download that lands before or after the ignore set is taken at
\* line 541, which is after trigger_cad_download
FetchStep ==
    /\ pc = "cad"
    /\ \/ /\ scratch' = <<>>
          /\ downloads' = <<>>
       \/ \E f \in CadDownloads, early \in BOOLEAN :
             LET before == IF early THEN <<f>> ELSE <<>>
                 during == IF early THEN <<>> ELSE <<f>>
                 ignore_existing == ScratchNames(before)
             IN  /\ scratch' = before \o during
                 /\ downloads' = wait_for_download(before, during,
                                                   ignore_existing)
    /\ pc' = "batch"
    /\ UNCHANGED << browser, proc, audit, poll, run, args, idx, processed_count, attempt, fs, outcome,
                    lastCheck >>

\* add_documents_to_cart and trigger_batch_download (lines 420-425,
\* 486-499): the page fails to load, or the ignore set is taken, the
\* confirm button clicked and the download awaited
BatchDownload ==
    /\ pc = "batch"
    /\ \/ /\ Raised
          /\ UNCHANGED << scratch, downloads, poll >>
       \/ \E landed \in {<<>>} \cup { <<b>> : b \in BatchDownloads } :
             LET ignore_existing == ScratchNames(scratch)
                 archive == wait_for_download(scratch, landed, ignore_existing)
             IN  /\ scratch' = scratch \o landed
                 /\ IF archive = <<>>
                    THEN /\ Raised
                         /\ poll' = [at |-> "timeout"]
                         /\ UNCHANGED downloads
                    ELSE /\ downloads' = downloads \o archive
                         /\ pc' = "transform"
                         /\ UNCHANGED << idx, processed_count, outcome, poll >>
    /\ UNCHANGED << browser, proc, audit, run, args, attempt, fs, lastCheck >>

\* transform_downloads, one iteration (lines 636-640), with process_zip
\* (lines 686-692): an archive is unpacked and every member distributed
TransformOne ==
    /\ pc = "transform"
    /\ downloads # <<>>
    /\ LET download == Head(downloads)
       IN  IF Lower(PathSuffix(download.name)) = ExtZip
           THEN IF download.data.zip
                THEN /\ \E walk \in WalksUpTo(MaxBatchLen) :
                           fs' = [fs EXCEPT ![Current].files =
                                    distribute_all(walk, Current, @)]
                     /\ pc' = IF Tail(downloads) = <<>> THEN "check"
                                                         ELSE "transform"
                     /\ downloads' = Tail(downloads)
                     /\ UNCHANGED << idx, processed_count, outcome >>
                ELSE /\ Raised
                     /\ UNCHANGED << fs, downloads >>
           ELSE /\ fs' = [fs EXCEPT ![Current].files =
                            distribute_file(download, Current, @)]
                /\ pc' = IF Tail(downloads) = <<>> THEN "check"
                                                    ELSE "transform"
                /\ downloads' = Tail(downloads)
                /\ UNCHANGED << idx, processed_count, outcome >>
    /\ UNCHANGED << browser, proc, audit, poll, run, args, attempt, scratch, lastCheck >>

\* `for attempt in range(2)` (line 316): whether the loop has a next value
InAttemptRange_Three(a) == a < 3
InAttemptRange(a) == a < 2


\* lines 341-344: the completeness check that ends an attempt
CheckAttempt ==
    /\ pc = "check"
    /\ \E v \in required_files_present(fs[Current], Current) :
          /\ lastCheck' = v
          /\ IF v.ok
             THEN /\ pc' = "finish"
                  /\ UNCHANGED attempt
             ELSE /\ attempt' = attempt + 1
                  /\ pc' = IF InAttemptRange(attempt + 1) THEN "lookup1"
                                                          ELSE "finish"
    /\ UNCHANGED << browser, proc, audit, poll, run, args, idx, processed_count, fs, scratch, downloads,
                    outcome >>

\* lines 345-351: write the marker if the check passes, and return True
Finish ==
    /\ pc = "finish"
    /\ \E v \in required_files_present(fs[Current], Current) :
          /\ lastCheck' = v
          /\ fs' = IF v.ok
                   THEN [fs EXCEPT ![Current].files =
                           Put(@, MarkerName, MarkerData)]
                   ELSE fs
    /\ Returned("true")
    /\ UNCHANGED << browser, proc, audit, poll, run, args, attempt, scratch, downloads >>

Next ==
    \/ MainStart
    \/ CrawlReturn
    \/ ProcessProductEnter
    \/ Lookup1
    \/ DownloadImage
    \/ DownloadManual
    \/ Lookup2
    \/ FetchStep
    \/ BatchDownload
    \/ TransformOne
    \/ CheckAttempt
    \/ Finish

Spec == Init /\ [][Next]_vars

(***************************************************************************)
(* _required_files_present applied to product directories of any content.  *)
(***************************************************************************)
Pdf999   == Data(999, "%PDF", FALSE, <<>>, 400)
ZipGood  == Data(1500, "PK34", TRUE, << <<"x","1",".","d","x","f">> >>, 1500)
ZipEmpty == Data(1200, "PK56", TRUE, <<>>, 1200)
ZipSmall == Data(400, "PK34", TRUE, << <<"x","1",".","d","x","f">> >>, 400)
RarData  == Data(1500, "Rar!", FALSE, <<>>, 1500)

Slot(name, options) == [name |-> name, options |-> options]

\* the files a product directory under check may hold, each with the
\* contents it may have
ListingSlots(code) == <<
    Slot(code \o SfxCatalog \o ExtPdf, {PdfBig, Pdf999, HtmlPage}),
    Slot(<<"o","l","d","_">> \o code \o SfxCatalog \o ExtPdf, {Pdf999}),
    Slot(code \o SfxDimension \o ExtPdf, {PdfBig}),
    Slot(<<"Y">> \o SfxDimension \o ExtPdf, {PdfBig}),
    Slot(code \o SfxDXF \o ExtZip, {ZipGood, ZipEmpty, ZipSmall, RarData}),
    Slot(code \o SfxSTEP \o ExtZip, {ZipGood, ZipSmall}),
    Slot(code \o SfxManual \o ExtPdf, {PdfBig, HtmlPage}),
    Slot(code \o SfxDatasheet \o ExtPdf, {PdfBig, Pdf999, HtmlPage}) >>

RECURSIVE ListingsFrom(_, _)
ListingsFrom(i, code) ==
    IF i > Len(ListingSlots(code)) THEN { EmptyMap }
    ELSE LET rest == ListingsFrom(i + 1, code)
         IN  rest \cup { Put(m, ListingSlots(code)[i].name, d) :
                           m \in rest, d \in ListingSlots(code)[i].options }

\* the states Images/ may be in: absent, empty, or holding one thumbnail
ImageFolders(code) ==
    { [imgdir |-> FALSE, images |-> EmptyMap],
      [imgdir |-> TRUE, images |-> EmptyMap] }
    \cup { [imgdir |-> TRUE,
            images |-> Put(EmptyMap, code \o ExtPng,
                           Data(n, "PNG.", FALSE, <<>>, n))] :
           n \in {1000, 1001} }

\* the product directories the check is applied to
DirPool(code) ==
    { [exists |-> TRUE, files |-> m, imgdir |-> f.imgdir, images |-> f.images] :
      m \in ListingsFrom(1, code), f \in ImageFolders(code) }

InitRFP ==
    /\ run = 1
    /\ args = [overwrite |-> FALSE, max_products |-> 0]
    /\ pc = "rfp"
    /\ idx = 1
    /\ processed_count = 0
    /\ attempt = 0
    /\ fs \in [ProductSet -> DirPool(Products[1])]
    /\ scratch = <<>>
    /\ downloads = <<>>
    /\ outcome = [c \in ProductSet |-> "none"]
    /\ lastCheck = NoCheck
    /\ audit = NoAudit
    /\ poll = NoPoll
    /\ browser = NoBrowser
    /\ proc = NoProc

\* one call of _required_files_present on the directory of the product
ApplyRFP ==
    /\ pc = "rfp"
    /\ \E v \in required_files_present(fs[Current], Current) :
          lastCheck' = v
    /\ pc' = "rfp_done"
    /\ UNCHANGED << browser, proc, audit, poll, run, args, idx, processed_count, attempt, fs, scratch,
                    downloads, outcome >>

NextRFP == ApplyRFP

SpecRFP == InitRFP /\ [][NextRFP]_vars

(***************************************************************************)
(* validate_outputs.py: clean_zip.                                         *)
(*   An archive is a file content whose `entries` are its member names in  *)
(*   namelist() order; the optional field `badcrc` holds the positions of  *)
(*   the members whose stored bytes fail their CRC-32.                     *)
(***************************************************************************)
ExtDxf == <<".","d","x","f">>
ExtTmpZip == <<".","t","m","p",".","z","i","p">>

Range(s) == { s[i] : i \in 1..Len(s) }

\* pathlib's Path(m).name: the last component, trailing slashes dropped
PathName(s) ==
    LET t == IF Len(s) > 0 /\ s[Len(s)] = "/" THEN SubSeq(s, 1, Len(s) - 1)
                                               ELSE s
        slashes == { i \in 1..Len(t) : t[i] = "/" }
    IN  IF slashes = {} THEN t ELSE SubSeq(t, SetMax(slashes) + 1, Len(t))

\* Path.with_suffix(suffix)
WithSuffix(name, suffix) ==
    SubSeq(name, 1, Len(name) - Len(PathSuffix(name))) \o suffix

\* line 77
target_exts(mode) == IF mode = "dxf" THEN {ExtDxf} ELSE {ExtStp, ExtStepLong}

\* the test of line 84 on one member name
IsTargetMember(m, mode) == Lower(PathSuffix(PathName(m))) \in target_exts(mode)

\* line 84
target_members(members, mode) ==
    LET Test(m) == IsTargetMember(m, mode)
    IN  SelectSeq(members, Test)

BadCrc(data) == IF "badcrc" \in DOMAIN data THEN data.badcrc ELSE {}

\* zf.read(m) raises BadZipFile: ZipFile looks a name up in NameToInfo,
\* which holds the last member of that name
ReadFails(data, m) ==
    SetMax({ i \in 1..Len(data.entries) : data.entries[i] = m })
        \in BadCrc(data)

\* bytes one stored member takes after DEFLATE
MemberDeflated == 1000

\* the size of a zip file with these member names
RECURSIVE ZipSize(_)
ZipSize(names) ==
    IF names = <<>> THEN 22
    ELSE 76 + 2 * Len(Head(names)) + MemberDeflated + ZipSize(Tail(names))

ZipOf(names) ==
    Data(ZipSize(names), IF names = <<>> THEN "PK56" ELSE "PK34", TRUE,
         names, ZipSize(names))

\* the members the loop of lines 92-96 reads before zf.read raises, all of
\* them when none does
RECURSIVE ReadablePrefix(_, _)
ReadablePrefix(data, ms) ==
    IF ms = <<>> \/ ReadFails(data, Head(ms)) THEN <<>>
    ELSE <<Head(ms)>> \o ReadablePrefix(data, Tail(ms))

\* arcname = Path(m).name for each member written (line 94)
FlatNames(ms) == [i \in 1..Len(ms) |-> PathName(ms[i])]

\* the condition of line 89 under which the archive is rebuilt
NeedsRebuild_Always(targets, members) == TRUE
NeedsRebuild(targets, members) == Range(targets) # Range(members)

CleanResult(changed, kept, files) ==
    [changed |-> changed, kept |-> kept, files |-> files]

\* clean_zip(zip_path, mode) on the directory listing `files`: the tuple it
\* returns and the listing it leaves
clean_zip(files, zip_path, mode) ==
    LET data == files[zip_path]
        members == data.entries
        targets == target_members(members, mode)
        tmp_zip == WithSuffix(zip_path, ExtTmpZip)
        written == ReadablePrefix(data, targets)
        kept == FlatNames(written)
    IN  IF ~data.zip THEN CleanResult(FALSE, <<>>, files)
        ELSE IF targets = <<>> THEN CleanResult(FALSE, <<>>, files)
        ELSE IF NeedsRebuild(targets, members)
        THEN IF written # targets
             THEN CleanResult(FALSE, kept, Put(files, tmp_zip, ZipOf(kept)))
             ELSE CleanResult(TRUE, kept,
                              Del(Put(files, zip_path, ZipOf(kept)), tmp_zip))
        ELSE CleanResult(FALSE, FlatNames(targets), files)

\* the member names the archives under audit are built from
MemberNames == { <<"x",".","d","x","f">>,
                 <<"a","/","x",".","d","x","f">>,
                 <<"b","/","x",".","D","X","F">>,
                 <<"b","/","x",".","d","x","f">>,
                 <<"r",".","t","x","t">>,
                 <<"a","/","m",".","s","t","p">>,
                 <<"m",".","S","T","E","P">> }

RECURSIVE MemberLists(_)
MemberLists(n) ==
    IF n = 0 THEN { <<>> }
    ELSE LET shorter == MemberLists(n - 1)
         IN  shorter \cup { Append(l, m) : l \in shorter, m \in MemberNames }

\* the archives clean_zip is applied to: zip files of up to MaxMembers
\* members, intact or with one member whose bytes are damaged, and a file
\* that is no zip
ArchivePool ==
    { ZipOf(l) : l \in MemberLists(MaxMembers) }
    \cup { ZipOf(l) @@ [badcrc |-> {i}] :
           l \in MemberLists(MaxMembers) \ { <<>> }, i \in 1..MaxMembers }
    \cup { RarData }

ZipPathOf(code, mode) ==
    IF mode = "dxf" THEN code \o SfxDXF \o ExtZip ELSE code \o SfxSTEP \o ExtZip

InitCZ ==
    /\ run = 1
    /\ args = [overwrite |-> FALSE, max_products |-> 0]
    /\ pc = "clean_zip"
    /\ idx = 1
    /\ processed_count = 0
    /\ attempt = 0
    /\ \E mode \in {"dxf", "step"}, a \in ArchivePool :
          /\ BadCrc(a) \subseteq 1..Len(a.entries)
          /\ fs = [c \in ProductSet |->
                     [exists |-> TRUE,
                      files |-> Put(EmptyMap, ZipPathOf(c, mode), a),
                      imgdir |-> FALSE, images |-> EmptyMap]]
          /\ audit = [mode |-> mode, calls |-> <<>>]
    /\ scratch = <<>>
    /\ downloads = <<>>
    /\ outcome = [c \in ProductSet |-> "none"]
    /\ lastCheck = NoCheck
    /\ poll = NoPoll
    /\ browser = NoBrowser
    /\ proc = NoProc

\* one call of clean_zip on the archive of the directory
CleanZipCall ==
    /\ pc = "clean_zip"
    /\ Len(audit.calls) < MaxCleanCalls
    /\ LET zip_path == ZipPathOf(Current, audit.mode)
           r == clean_zip(fs[Current].files, zip_path, audit.mode)
       IN  /\ fs' = [fs EXCEPT ![Current].files = r.files]
           /\ audit' = [audit EXCEPT !.calls =
                          Append(@, [changed |-> r.changed, kept |-> r.kept,
                                     before |-> fs[Current].files])]
    /\ UNCHANGED << browser, proc, run, args, pc, idx, processed_count, attempt, scratch,
                    downloads, outcome, lastCheck, poll >>

NextCZ == CleanZipCall

SpecCZ == InitCZ /\ [][NextCZ]_vars

(***************************************************************************)
(* validate_outputs.py: validate_product_dir and validate_roots.           *)
(***************************************************************************)
\* IMAGE_EXTS (line 19)
IMAGE_EXTS == { <<".","j","p","g">>, <<".","j","p","e","g">>,
                <<".","p","n","g">>, <<".","g","i","f">>,
                <<".","w","e","b","p">> }

\* the keys of REQUIRED (lines 21-28), in order
AUDIT_SUFFIXES == << SfxCatalog \o ExtPdf, SfxDimension \o ExtPdf,
                     SfxDXF \o ExtZip, SfxSTEP \o ExtZip,
                     SfxManual \o ExtPdf, SfxDatasheet \o ExtPdf >>

\* the value REQUIRED gives a suffix
REQUIRED(suffix) ==
    suffix \in { SfxCatalog \o ExtPdf, SfxDimension \o ExtPdf,
                 SfxDXF \o ExtZip, SfxSTEP \o ExtZip }

\* the suffixes of the PDF validity loop (line 129)
AUDIT_PDF_SUFFIXES == { SfxCatalog \o ExtPdf, SfxDimension \o ExtPdf,
                        SfxManual \o ExtPdf, SfxDatasheet \o ExtPdf }

\* collect_by_suffix: a file goes to the bucket of the first suffix, in
\* the order of the keys, that its name ends with
collect_by_suffix(files) ==
    [ sfx \in Range(AUDIT_SUFFIXES) |->
        { n \in DOMAIN files :
            \E i \in 1..Len(AUDIT_SUFFIXES) :
               /\ AUDIT_SUFFIXES[i] = sfx
               /\ EndsWith(n, sfx)
               /\ \A j \in 1..(i - 1) : ~EndsWith(n, AUDIT_SUFFIXES[j]) } ]

DelAll(files, names) == [n \in (DOMAIN files) \ names |-> files[n]]

\* the files max(paths, key=size) may return: any file of the largest
\* size, the listing order of glob deciding among equals
Largest_Any(files, paths) == paths
Largest(files, paths) ==
    { p \in paths : \A q \in paths : files[q].size <= files[p].size }

\* remove_duplicates from the i-th suffix on: the listings it may leave,
\* each with the suffixes of its removed list
RECURSIVE remove_duplicates(_, _, _)
remove_duplicates(i, files, buckets) ==
    IF i > Len(AUDIT_SUFFIXES) THEN { [files |-> files, removed |-> {}] }
    ELSE LET suffix == AUDIT_SUFFIXES[i]
             paths == buckets[suffix]
         IN  IF Cardinality(paths) <= 1
             THEN remove_duplicates(i + 1, files, buckets)
             ELSE UNION {
                    { [files |-> r.files, removed |-> r.removed \cup {suffix}] :
                      r \in remove_duplicates(i + 1,
                                DelAll(files, paths \ {keep}), buckets) } :
                    keep \in Largest(files, paths) }

Issue(kind, what) == << kind, what >>

\* the zip cleanup loops of lines 141-167 for one mode, over the archives
\* `todo`: the listing left, the fixes and the issues
RECURSIVE clean_zips(_, _, _)
clean_zips(files, todo, mode) ==
    IF todo = {} THEN [files |-> files, fixed |-> {}, issues |-> {}]
    ELSE LET z == CHOOSE n \in todo : TRUE
             r == clean_zip(files, z, mode)
             now == r.files[z]
             rest == clean_zips(r.files, todo \ {z}, mode)
         IN  [files |-> rest.files,
              fixed |-> rest.fixed \cup
                        (IF r.changed THEN { Issue("cleaned", z) } ELSE {}),
              issues |-> rest.issues \cup
                 (IF ~now.zip THEN { Issue("corrupt", z) }
                  ELSE IF \A m \in Range(now.entries) :
                             ~IsTargetMember(m, mode)
                       THEN { Issue("no_cad_member", z) }
                       ELSE {})]

\* the Images folder test of lines 170-176
audit_images_ok(dir) ==
    /\ dir.imgdir
    /\ \E n \in DOMAIN dir.images :
          /\ Lower(PathSuffix(n)) \in IMAGE_EXTS
          /\ dir.images[n].size > 0

\* validate_product_dir(prod_dir): the results it may return, each with
\* the directory it leaves
validate_product_dir(dir, code) ==
    { LET files1 == d.files
          missing == { sfx \in Range(AUDIT_SUFFIXES) :
                         /\ REQUIRED(sfx)
                         /\ ~\E n \in DOMAIN files1 : EndsWith(n, sfx) }
          invalid == { n \in DOMAIN files1 :
                         /\ \E sfx \in AUDIT_PDF_SUFFIXES : EndsWith(n, sfx)
                         /\ files1[n].size = 0 \/ ~is_pdf(files1[n]) }
          files2 == DelAll(files1, invalid)
          dxf == clean_zips(files2,
                    { n \in DOMAIN files2 : EndsWith(n, SfxDXF \o ExtZip) },
                    "dxf")
          step == clean_zips(dxf.files,
                    { n \in DOMAIN dxf.files : EndsWith(n, SfxSTEP \o ExtZip) },
                    "step")
          issues == { Issue("missing", sfx) : sfx \in missing }
                    \cup { Issue("invalid_pdf", n) : n \in invalid }
                    \cup dxf.issues \cup step.issues
                    \cup (IF audit_images_ok(dir) THEN {}
                          ELSE { Issue("image", <<>>) })
          fixed == (IF d.removed = {} THEN {}
                    ELSE { Issue("duplicates", d.removed) })
                   \cup { Issue("deleted_pdf", n) : n \in invalid }
                   \cup dxf.fixed \cup step.fixed
      IN  [product |-> code,
           status |-> IF issues = {} THEN "ok" ELSE "warn",
           issues |-> issues,
           fixed |-> fixed,
           deduped |-> files1,
           dir |-> [dir EXCEPT !.files = step.files]] :
      d \in remove_duplicates(1, dir.files, collect_by_suffix(dir.files)) }

\* the test of line 191 for entering a product directory
IsMarked_All(dir) == dir.exists
IsMarked(dir) == dir.exists /\ MarkerName \in DOMAIN dir.files

\* the listings that hold, for each slot, none or one of its contents
RECURSIVE ListingsOf(_)
ListingsOf(slots) ==
    IF slots = <<>> THEN { EmptyMap }
    ELSE LET rest == ListingsOf(Tail(slots))
         IN  rest \cup { Put(m, Head(slots).name, d) :
                           m \in rest, d \in Head(slots).options }

PdfHuge == Data(3000, "%PDF", FALSE, <<>>, 700)
EmptyFile == Data(0, "", FALSE, <<>>, 0)
NameXDxf == <<"x",".","d","x","f">>
NameNestedDxf == <<"a","/","x",".","d","x","f">>
NameReadme == <<"r",".","t","x","t">>
NameStp == <<"m",".","s","t","p">>

\* the files a product directory under audit may hold
AuditSlots(code) == <<
    Slot(code \o SfxCatalog \o ExtPdf, {PdfBig, HtmlPage}),
    Slot(<<"o","l","d","_">> \o code \o SfxCatalog \o ExtPdf, {PdfBig, PdfHuge}),
    Slot(code \o SfxDXF \o ExtZip,
         { ZipOf(<<NameXDxf>>), ZipOf(<<NameNestedDxf, NameReadme>>), RarData,
           ZipOf(<<NameNestedDxf, NameReadme>>) @@ [badcrc |-> {1}] }),
    Slot(code \o SfxSTEP \o ExtZip, {ZipOf(<<NameStp>>)}),
    Slot(code \o SfxManual \o ExtPdf, {PdfBig, EmptyFile}),
    Slot(MarkerName, {MarkerData}) >>

\* the states Images/ may be in under audit
AuditImageFolders(code) ==
    { [imgdir |-> FALSE, images |-> EmptyMap] }
    \cup { [imgdir |-> TRUE,
            images |-> Put(EmptyMap, code \o ExtPng,
                           Data(n, "PNG.", FALSE, <<>>, n))] :
           n \in {500, 1001} }
    \cup { [imgdir |-> TRUE,
            images |-> Put(EmptyMap, code \o <<".","b","m","p">>,
                           Data(5000, "BM..", FALSE, <<>>, 5000))] }

AuditDirPool(code) ==
    { [exists |-> TRUE,
       files |-> Put(m, code \o SfxDimension \o ExtPdf, PdfBig),
       imgdir |-> f.imgdir, images |-> f.images] :
      m \in ListingsOf(AuditSlots(code)), f \in AuditImageFolders(code) }

InitAudit ==
    /\ run = 1
    /\ args = [overwrite |-> FALSE, max_products |-> 0]
    /\ pc = "audit"
    /\ idx = 1
    /\ processed_count = 0
    /\ attempt = 0
    /\ fs \in [ProductSet -> AuditDirPool(Products[1])]
    /\ scratch = <<>>
    /\ downloads = <<>>
    /\ outcome = [c \in ProductSet |-> "none"]
    /\ lastCheck = NoCheck
    /\ audit = [before |-> fs, results |-> <<>>]
    /\ poll = NoPoll
    /\ browser = NoBrowser
    /\ proc = NoProc

\* validate_roots, one iteration of its loop over the product directories
\* (lines 189-194): a directory without the marker is skipped, any other is
\* validated and its result appended to all_results
ValidateNextDir ==
    /\ pc = "audit"
    /\ idx <= Len(Products)
    /\ IF IsMarked(fs[Current])
       THEN \E res \in validate_product_dir(fs[Current], Current) :
               /\ fs' = [fs EXCEPT ![Current] = res.dir]
               /\ audit' = [audit EXCEPT !.results = Append(@, res)]
       ELSE UNCHANGED << fs, audit >>
    /\ idx' = idx + 1
    /\ UNCHANGED << browser, proc, run, args, pc, processed_count, attempt, scratch,
                    downloads, outcome, lastCheck, poll >>

\* validate_roots returns all_results (line 195)
ValidateRootsReturn ==
    /\ pc = "audit"
    /\ idx > Len(Products)
    /\ pc' = "audit_done"
    /\ UNCHANGED << browser, proc, run, args, idx, processed_count, attempt, fs, scratch,
                    downloads, outcome, lastCheck, audit, poll >>

NextAudit ==
    \/ ValidateNextDir
    \/ ValidateRootsReturn

SpecAudit == InitAudit /\ [][NextAudit]_vars

(***************************************************************************)
(* wait_for_download, poll by poll, with the browser writing into the      *)
(* scratch directory while it sleeps.                                      *)
(***************************************************************************)
ExtCrdownload == <<".","c","r","d","o","w","n","l","o","a","d">>

\* glob("*.crdownload") on the scratch directory (line 504)
cr_downloads(files) ==
    { i \in 1..Len(files) : EndsWith(files[i].name, ExtCrdownload) }

\* lines 507-511: the files whose names are not in the ignore set
new_files(files, existing) ==
    { i \in 1..Len(files) : files[i].name \notin existing }

\* one iteration of the loop (lines 504-516): <<>> when it sleeps, else
\* the file it returns, the last one in st_mtime order
wait_poll_NoMarkerTest(files, existing) ==
    IF new_files(files, existing) # {}
    THEN << files[SetMax(new_files(files, existing))] >>
    ELSE <<>>
wait_poll_OnlySleeps(files, existing) == <<>>
wait_poll(files, existing) ==
    IF cr_downloads(files) # {} THEN <<>>
    ELSE IF new_files(files, existing) # {}
    THEN << files[SetMax(new_files(files, existing))] >>
    ELSE <<>>

\* the loop condition of line 503 fails after `timeout` seconds, one
\* second per iteration
TimedOut(elapsed) == elapsed >= WaitTimeout

NameOld == <<"o","l","d",".","z","i","p">>
NameBatch == <<"b",".","z","i","p">>
OldFile == Raw(NameOld, ZipOf(<<NameReadme>>))
BatchFile == Raw(NameBatch, ZipOf(<<NameXDxf>>))
PartFile == Raw(NameBatch \o ExtCrdownload, Data(700, "PK34", FALSE, <<>>, 700))

\* the scratch directory when the wait starts, oldest file first
ScratchAtStart == { <<>>, <<OldFile>>, <<OldFile, BatchFile>>, <<BatchFile>>,
                    <<OldFile, PartFile>> }

InitWait ==
    /\ run = 1
    /\ args = [overwrite |-> FALSE, max_products |-> 0]
    /\ pc = "wait"
    /\ idx = 1
    /\ processed_count = 0
    /\ attempt = 0
    /\ fs = [c \in ProductSet |-> NoDir]
    /\ scratch \in ScratchAtStart
    /\ downloads = <<>>
    /\ outcome = [c \in ProductSet |-> "none"]
    /\ lastCheck = NoCheck
    /\ audit = NoAudit
    /\ \E ignore_existing \in SUBSET ScratchNames(scratch) :
          poll = [at |-> "polling", elapsed |-> 0,
                  existing |-> ignore_existing,
                  seen_markers |-> 0, result |-> <<>>]
    /\ browser = NoBrowser
    /\ proc = NoProc

\* the browser starts writing the download: the in-progress file appears
BrowserStarts ==
    /\ pc = "wait"
    /\ poll.at = "polling"
    /\ \A i \in 1..Len(scratch) :
          scratch[i].name \notin {NameBatch, NameBatch \o ExtCrdownload}
    /\ scratch' = Append(scratch, PartFile)
    /\ UNCHANGED << browser, proc, run, args, pc, idx, processed_count, attempt, fs,
                    downloads, outcome, lastCheck, audit, poll >>

\* the browser finishes: the in-progress file is renamed to its final name
BrowserCompletes ==
    /\ pc = "wait"
    /\ poll.at = "polling"
    /\ cr_downloads(scratch) # {}
    /\ LET NotPart(f) == f # PartFile
       IN  scratch' = Append(SelectSeq(scratch, NotPart), BatchFile)
    /\ UNCHANGED << browser, proc, run, args, pc, idx, processed_count, attempt, fs,
                    downloads, outcome, lastCheck, audit, poll >>

\* one iteration of the while loop of wait_for_download
WaitPoll ==
    /\ pc = "wait"
    /\ poll.at = "polling"
    /\ ~TimedOut(poll.elapsed)
    /\ LET got == wait_poll(scratch, poll.existing)
       IN  IF got = <<>>
           THEN poll' = [poll EXCEPT
                           !.elapsed = @ + 1,
                           !.seen_markers =
                              IF cr_downloads(scratch) # {} THEN @ + 1 ELSE @]
           ELSE poll' = [poll EXCEPT !.at = "returned", !.result = got]
    /\ UNCHANGED << browser, proc, run, args, pc, idx, processed_count, attempt, fs, scratch,
                    downloads, outcome, lastCheck, audit >>

\* line 517: the loop is left and DownloadTimeout raised
WaitTimesOut ==
    /\ pc = "wait"
    /\ poll.at = "polling"
    /\ TimedOut(poll.elapsed)
    /\ poll' = [poll EXCEPT !.at = "timeout"]
    /\ UNCHANGED << browser, proc, run, args, pc, idx, processed_count, attempt, fs, scratch,
                    downloads, outcome, lastCheck, audit >>

NextWait ==
    \/ BrowserStarts
    \/ BrowserCompletes
    \/ WaitPoll
    \/ WaitTimesOut

SpecWait == InitWait /\ [][NextWait]_vars

\* the loop of wait_for_download keeps running: time passes and the
\* process is scheduled
SpecWaitLive ==
    InitWait /\ [][NextWait]_vars /\ WF_vars(WaitPoll) /\ WF_vars(WaitTimesOut)

(***************************************************************************)
(* distribute_file applied to single files of any name.                    *)
(***************************************************************************)
NamePrefixes == { <<>>, <<"c","_">>, <<"d","_">>, <<"M","_">> }
NameStems == { <<"x","1">>,
               <<"m","a","n","u","a","l">>,
               <<"c","a","t","a","l","o","g","_","m","a","n","u","a","l">>,
               <<"d","a","t","a","s","h","e","e","t">>,
               <<"d","a","t","a","-","s","h","e","e","t">>,
               <<"d","r","a","w","i","n","g">>,
               <<"x","1","_","e">>,
               <<"s","t","e","p">>,
               <<"f","o","o">>,
               <<"d","x","f">> }
NameExts == { ExtPdf, <<".","P","D","F">>, ExtStp, ExtZip }

\* the file names distribute_file is applied to
NamePool == { p \o s \o e : p \in NamePrefixes, s \in NameStems, e \in NameExts }

InitClassify ==
    /\ run = 1
    /\ args = [overwrite |-> FALSE, max_products |-> 0]
    /\ pc = "distribute"
    /\ idx = 1
    /\ processed_count = 0
    /\ attempt = 0
    /\ fs = [c \in ProductSet |->
               [exists |-> TRUE, files |-> EmptyMap, imgdir |-> TRUE,
                images |-> EmptyMap]]
    /\ \E name \in NamePool, data \in {PdfBig, HtmlPage} :
          scratch = << Raw(name, data) >>
    /\ downloads = <<>>
    /\ outcome = [c \in ProductSet |-> "none"]
    /\ lastCheck = NoCheck
    /\ audit = NoAudit
    /\ poll = NoPoll
    /\ browser = NoBrowser
    /\ proc = NoProc

\* one call of distribute_file on the file of the scratch directory
DistributeOne ==
    /\ pc = "distribute"
    /\ fs' = [fs EXCEPT ![Current].files =
                distribute_file(scratch[1], Current, @)]
    /\ pc' = "distributed"
    /\ UNCHANGED << browser, proc, run, args, idx, processed_count, attempt, scratch,
                    downloads, outcome, lastCheck, audit, poll >>

NextClassify == DistributeOne

SpecClassify == InitClassify /\ [][NextClassify]_vars

(***************************************************************************)
(* main and crawl over several series and products, process_product seen   *)
(* as its best-effort steps (under contextlib.suppress) followed by its    *)
(* other steps.                                                            *)
(***************************************************************************)
\* the series of the catalogue and the product codes each one lists
CrawlSeries == << <<"A", "B">>, <<"C">> >>

RECURSIVE Flatten(_)
Flatten(ss) == IF ss = <<>> THEN <<>> ELSE Head(ss) \o Flatten(Tail(ss))

\* the products in the order the loops of crawl reach them
CrawlProducts == Flatten(CrawlSeries)

\* the positions of CrawlProducts at which a series begins
RECURSIVE SeriesStarts(_, _)
SeriesStarts(ss, at) ==
    IF ss = <<>> THEN {}
    ELSE {at} \cup SeriesStarts(Tail(ss), at + Len(Head(ss)))

\* what a call may do: return, raise an Exception, or be interrupted
Raisable == {"none", "Exception", "KeyboardInterrupt"}

\* contextlib.suppress(Exception) swallows the exception (lines 327-330, 416)
Suppresses_None(exc) == FALSE
Suppresses(exc) == exc = "Exception"

\* the exception that leaves a try/finally whose body ended with `exc` and
\* whose finally block ended with `cleanup` (lines 538-545): an exception
\* raised in the finally block replaces the one in flight
Propagating(exc, cleanup) == IF cleanup # "none" THEN cleanup ELSE exc

\* what driver.close() in the finally block may do (line 544)
CloseOutcomes == {"none", "Exception"}

\* `except Exception` of crawl catches the exception (line 305)
Catches_Nothing(exc) == FALSE
Catches(exc) == exc = "Exception"

\* the exit code main returns for an exception that reaches it (lines
\* 771-778)
ExitCodeFor(exc) == IF exc = "KeyboardInterrupt" THEN 2 ELSE 1

InitCrawl ==
    /\ run = 1
    /\ \E mp \in {0, 1}, keep \in BOOLEAN :
          args = [overwrite |-> FALSE, max_products |-> mp,
                  keep_downloads |-> keep]
    /\ pc = "login"
    /\ idx = 1
    /\ processed_count = 0
    /\ attempt = 0
    /\ fs = [c \in ProductSet |-> NoDir]
    /\ scratch = <<>>
    /\ downloads = <<>>
    /\ outcome = [i \in 1..Len(CrawlProducts) |-> "none"]
    /\ lastCheck = NoCheck
    /\ audit = NoAudit
    /\ poll = NoPoll
    /\ browser = NoBrowser
    /\ proc = [exit |-> "running", driver |-> "up", scratch_dir |-> TRUE,
               signal |-> FALSE, why |-> "none"]

\* main leaves its try block: the handlers of lines 771-778, then the
\* finally of lines 779-782 with close() (lines 235-239), then the return
MainExits(code, why) ==
    /\ pc' = "exited"
    /\ proc' = [proc EXCEPT
                  !.exit = code,
                  !.why = why,
                  !.driver = "quit",
                  !.scratch_dir = args.keep_downloads,
                  !.signal = @ \/ code = 2]

\* the loop of crawl moves to the next product, collecting the products of
\* the next series first when the series is exhausted
NextProduct ==
    /\ idx' = idx + 1
    /\ pc' = IF idx + 1 \in SeriesStarts(CrawlSeries, 1) THEN "series"
                                                         ELSE "product"

\* an exception leaves process_product: crawl catches it and continues
\* (lines 305-307), or it reaches main
LeavesProduct(exc) ==
    IF Catches(exc)
    THEN /\ outcome' = [outcome EXCEPT ![idx] = "raised"]
         /\ NextProduct
         /\ proc' = [proc EXCEPT !.signal = @ \/ exc = "KeyboardInterrupt"]
         /\ UNCHANGED processed_count
    ELSE /\ MainExits(ExitCodeFor(exc), "product")
         /\ UNCHANGED << idx, outcome, processed_count >>

\* crawler.login() (line 768)
CrawlLogin ==
    /\ pc = "login"
    /\ \E exc \in Raisable :
          IF exc = "none"
          THEN /\ pc' = "series"
               /\ UNCHANGED proc
          ELSE MainExits(ExitCodeFor(exc), "login")
    /\ UNCHANGED << run, args, idx, processed_count, attempt, fs, scratch,
                    downloads, outcome, lastCheck, audit, poll, browser >>

\* collect_products_from_series for the next series (line 295)
CollectProducts ==
    /\ pc = "series"
    /\ \E exc \in Raisable :
          IF exc = "none"
          THEN /\ pc' = "product"
               /\ UNCHANGED proc
          ELSE MainExits(ExitCodeFor(exc), "series")
    /\ UNCHANGED << run, args, idx, processed_count, attempt, fs, scratch,
                    downloads, outcome, lastCheck, audit, poll, browser >>

\* crawl returns, at the end of its loops or at line 300, and main returns 0
CrawlEnds ==
    /\ pc = "product"
    /\ \/ idx > Len(CrawlProducts)
       \/ args.max_products # 0 /\ processed_count >= args.max_products
    /\ MainExits(0, "done")
    /\ UNCHANGED << run, args, idx, processed_count, attempt, fs, scratch,
                    downloads, outcome, lastCheck, audit, poll, browser >>

\* process_product is called for the next product (lines 299-302)
StartProduct ==
    /\ pc = "product"
    /\ idx <= Len(CrawlProducts)
    /\ ~(args.max_products # 0 /\ processed_count >= args.max_products)
    /\ pc' = "best_effort"
    /\ outcome' = [outcome EXCEPT ![idx] = "started"]
    /\ UNCHANGED << run, args, idx, processed_count, attempt, fs, scratch,
                    downloads, lastCheck, audit, poll, browser, proc >>

\* a step of process_product under contextlib.suppress(Exception): the
\* image, the manual, the CAD sub-flow; the CAD sub-flow ends with the
\* finally block of fetch_step_file
BestEffortStep ==
    /\ pc = "best_effort"
    /\ \E exc \in Raisable, cleanup \in CloseOutcomes :
          LET leaving == Propagating(exc, cleanup)
          IN  IF leaving = "none" \/ Suppresses(leaving)
              THEN /\ pc' = "plain"
                   /\ proc' = [proc EXCEPT
                                 !.signal = @ \/ exc = "KeyboardInterrupt"]
                   /\ UNCHANGED << idx, outcome, processed_count >>
              ELSE LeavesProduct(leaving)
    /\ UNCHANGED << run, args, attempt, fs, scratch, downloads, lastCheck,
                    audit, poll, browser >>

\* the other steps of process_product up to its return
PlainSteps ==
    /\ pc = "plain"
    /\ \E exc \in Raisable :
          IF exc = "none"
          THEN \E result \in BOOLEAN :
                  /\ outcome' = [outcome EXCEPT ![idx] =
                                   IF result THEN "true" ELSE "false"]
                  /\ processed_count' = IF result THEN processed_count + 1
                                                  ELSE processed_count
                  /\ NextProduct
                  /\ UNCHANGED proc
          ELSE LeavesProduct(exc)
    /\ UNCHANGED << run, args, attempt, fs, scratch, downloads, lastCheck,
                    audit, poll, browser >>

NextCrawl ==
    \/ CrawlLogin
    \/ CollectProducts
    \/ CrawlEnds
    \/ StartProduct
    \/ BestEffortStep
    \/ PlainSteps

SpecCrawl == InitCrawl /\ [][NextCrawl]_vars

(***************************************************************************)
(* One product's attempts seen from the browser: the download cart, the    *)
(* tabs, the downloads in flight and the scratch directory, through        *)
(* clear_download_cart, clear_download_dir and collect_required_documents. *)
(***************************************************************************)
\* a download the browser has been asked for, and the file it writes
Download(kind, a) == [kind |-> kind, attempt |-> a]

DigitOf(a) == IF a = 0 THEN "0" ELSE "1"

DownloadName(d) ==
    << (IF d.kind = "cad" THEN "s" ELSE "b"), DigitOf(d.attempt) >> \o ExtZip

DownloadedFile(d) == [name |-> DownloadName(d), by |-> d]

\* a file a previous product left in the scratch directory
LeftoverFile == [name |-> NameOld, by |-> Download("earlier", 0)]

\* the cart entry of a document of the current product added in attempt a
CartDoc(a) == << "doc", a >>

\* an entry a previous product left in the cart
CartResidual == << "residual", 0 >>

MainTab == "main"

\* the handle of the tab the CAD link opens in attempt a
StepTab(a) == IF a = 0 THEN "step0" ELSE "step1"

InitCollect ==
    /\ run = 1
    /\ args = [overwrite |-> FALSE, max_products |-> 0]
    /\ pc = "clear_cart"
    /\ idx = 1
    /\ processed_count = 0
    /\ attempt = 0
    /\ fs = [c \in ProductSet |-> NoDir]
    /\ scratch \in { <<>>, <<LeftoverFile>> }
    /\ downloads = <<>>
    /\ outcome = [c \in ProductSet |-> "none"]
    /\ lastCheck = NoCheck
    /\ audit = NoAudit
    /\ poll = NoPoll
    /\ \E cart \in { {}, {CartResidual} } :
          browser = [window_handles |-> {MainTab}, current |-> MainTab,
                     step_tab |-> "none", main_tab |-> MainTab,
                     step_result |-> "none",
                     cart |-> cart, pending |-> {}]
    /\ proc = NoProc

CollectEnded == pc \in {"done", "raised"}

\* the browser finishes a download it was asked for: the file appears in
\* the scratch directory as its newest file
DownloadLands ==
    /\ ~CollectEnded
    /\ \E d \in browser.pending :
          /\ scratch' = Append(scratch, DownloadedFile(d))
          /\ browser' = [browser EXCEPT !.pending = @ \ {d}]
    /\ UNCHANGED << proc, run, args, pc, idx, processed_count, attempt, fs,
                    downloads, outcome, lastCheck, audit, poll >>

\* clear_download_cart (lines 396-412): nothing is removed when the form
\* does not show within 10 seconds
ClearDownloadCart ==
    /\ pc = "clear_cart"
    /\ \E timed_out \in BOOLEAN :
          browser' = [browser EXCEPT
                        !.cart = IF timed_out THEN @ ELSE {},
                        !.step_tab = "none",
                        !.step_result = "none"]
    /\ pc' = "clear_dir"
    /\ poll' = NoPoll
    /\ UNCHANGED << proc, run, args, idx, processed_count, attempt, fs,
                    scratch, downloads, outcome, lastCheck, audit >>

\* clear_download_dir (line 338, lines 385-390)
ClearDownloadDir ==
    /\ pc = "clear_dir"
    /\ scratch' = <<>>
    /\ pc' = "step_click"
    /\ UNCHANGED << browser, proc, run, args, idx, processed_count, attempt,
                    fs, downloads, outcome, lastCheck, audit, poll >>

\* the CAD sub-flow is left with exception `exc` (or "none") in flight
\* towards contextlib.suppress(Exception) of lines 416-419
StepLeaves(exc) ==
    pc' = IF exc = "none" \/ Suppresses(exc) THEN "add" ELSE "raised"

\* the finally block of fetch_step_file (lines 543-545): driver.close(),
\* then switch_to.window(main_tab), skipped when close() raises
StepFinally(b, cleanup) ==
    IF cleanup = "none"
    THEN [b EXCEPT !.window_handles = @ \ {b.current},
                   !.current = b.main_tab]
    ELSE b

\* fetch_step_file up to the switch to the new tab (lines 520-537)
StepClick ==
    /\ pc = "step_click"
    /\ \/ \E why \in {"nolink", "notab"} :
             /\ browser' = [browser EXCEPT !.step_result = why]
             /\ StepLeaves("none")
       \/ \E switch \in CloseOutcomes :
             LET opened == [browser EXCEPT
                              !.window_handles = @ \cup {StepTab(attempt)},
                              !.step_tab = StepTab(attempt),
                              !.main_tab = browser.current]
             IN  IF switch = "none"
                 THEN /\ browser' = [opened EXCEPT
                                       !.current = StepTab(attempt)]
                      /\ pc' = "step_portal"
                 ELSE /\ browser' = [opened EXCEPT !.step_result = "raised"]
                      /\ StepLeaves(switch)
    /\ UNCHANGED << proc, run, args, idx, processed_count, attempt, fs,
                    scratch, downloads, outcome, lastCheck, audit, poll >>

\* prepare_cad_portal and trigger_cad_download (lines 539-540): the portal
\* starts the CAD download, or no button is found, or a click raises
StepPortal ==
    /\ pc = "step_portal"
    /\ \/ \E started \in BOOLEAN :
             /\ browser' = [browser EXCEPT
                              !.pending = IF started
                                          THEN @ \cup {Download("cad", attempt)}
                                          ELSE @]
             /\ pc' = "step_snapshot"
       \/ \E cleanup \in CloseOutcomes :
             /\ browser' = [StepFinally(browser, cleanup)
                              EXCEPT !.step_result = "raised"]
             /\ StepLeaves(Propagating("Exception", cleanup))
    /\ UNCHANGED << proc, run, args, idx, processed_count, attempt, fs,
                    scratch, downloads, outcome, lastCheck, audit, poll >>

\* line 541: the ignore set of the CAD wait, and the wait begins
StepSnapshot ==
    /\ pc = "step_snapshot"
    /\ poll' = [at |-> "polling", label |-> "cad", elapsed |-> 0,
                existing |-> ScratchNames(scratch), result |-> <<>>]
    /\ pc' = "step_wait"
    /\ UNCHANGED << browser, proc, run, args, idx, processed_count, attempt,
                    fs, scratch, downloads, outcome, lastCheck, audit >>

\* add_documents_to_cart (line 420, lines 438-469)
AddDocumentsToCart ==
    /\ pc = "add"
    /\ \E exc \in CloseOutcomes :
          IF exc = "none"
          THEN /\ browser' = [browser EXCEPT !.cart = @ \cup {CartDoc(attempt)}]
               /\ pc' = "batch_snapshot"
          ELSE /\ pc' = "raised"
               /\ UNCHANGED browser
    /\ UNCHANGED << proc, run, args, idx, processed_count, attempt, fs,
                    scratch, downloads, outcome, lastCheck, audit, poll >>

\* trigger_batch_download up to the ignore set (lines 489-496)
BatchSnapshot ==
    /\ pc = "batch_snapshot"
    /\ \E form_shown \in BOOLEAN :
          IF form_shown
          THEN /\ poll' = [at |-> "armed", label |-> "batch", elapsed |-> 0,
                           existing |-> ScratchNames(scratch),
                           result |-> <<>>]
               /\ pc' = "batch_click"
          ELSE /\ pc' = "raised"
               /\ UNCHANGED poll
    /\ UNCHANGED << browser, proc, run, args, idx, processed_count, attempt,
                    fs, scratch, downloads, outcome, lastCheck, audit >>

\* line 497: the confirm button is clicked; the site starts the download
\* of what the cart holds and may empty the cart
BatchClick ==
    /\ pc = "batch_click"
    /\ \E emptied \in BOOLEAN :
          browser' = [browser EXCEPT
                        !.pending = @ \cup {Download("batch", attempt)},
                        !.cart = IF emptied THEN {} ELSE @]
    /\ poll' = [poll EXCEPT !.at = "polling"]
    /\ pc' = "batch_wait"
    /\ UNCHANGED << proc, run, args, idx, processed_count, attempt, fs,
                    scratch, downloads, outcome, lastCheck, audit >>

\* one iteration of wait_for_download in either wait (lines 503-516); the
\* CAD wait returns through the finally block of fetch_step_file
CollectWaitPoll ==
    /\ pc \in {"step_wait", "batch_wait"}
    /\ ~TimedOut(poll.elapsed)
    /\ LET got == wait_poll(scratch, poll.existing)
       IN  IF got = <<>>
           THEN /\ poll' = [poll EXCEPT !.elapsed = @ + 1]
                /\ UNCHANGED << pc, browser, downloads >>
           ELSE /\ poll' = [poll EXCEPT !.at = "returned", !.result = got]
                /\ IF pc = "step_wait"
                   THEN \E cleanup \in CloseOutcomes :
                           /\ browser' =
                                [StepFinally(browser, cleanup) EXCEPT
                                   !.step_result = IF cleanup = "none"
                                                   THEN "file" ELSE "raised"]
                           /\ downloads' = IF cleanup = "none"
                                           THEN Append(downloads, got[1])
                                           ELSE downloads
                           /\ StepLeaves(Propagating("none", cleanup))
                   ELSE /\ downloads' = Append(downloads, got[1])
                        /\ pc' = "check"
                        /\ UNCHANGED browser
    /\ UNCHANGED << proc, run, args, idx, processed_count, attempt, fs,
                    scratch, outcome, lastCheck, audit >>

\* line 517: DownloadTimeout; in the CAD wait it passes the finally block
\* and is suppressed, in the batch wait it leaves process_product
CollectWaitTimesOut ==
    /\ pc \in {"step_wait", "batch_wait"}
    /\ TimedOut(poll.elapsed)
    /\ poll' = [poll EXCEPT !.at = "timeout"]
    /\ IF pc = "step_wait"
       THEN \E cleanup \in CloseOutcomes :
               /\ browser' = [StepFinally(browser, cleanup) EXCEPT
                                !.step_result = "timeout"]
               /\ StepLeaves(Propagating("Exception", cleanup))
       ELSE /\ pc' = "raised"
            /\ UNCHANGED browser
    /\ UNCHANGED << proc, run, args, idx, processed_count, attempt, fs,
                    scratch, downloads, outcome, lastCheck, audit >>

\* transform_downloads and the completeness check (lines 340-344): the
\* loop ends or the next attempt begins
CollectCheck ==
    /\ pc = "check"
    /\ \E complete \in BOOLEAN :
          IF ~complete /\ InAttemptRange(attempt + 1)
          THEN /\ attempt' = attempt + 1
               /\ downloads' = <<>>
               /\ pc' = "clear_cart"
          ELSE /\ pc' = "done"
               /\ UNCHANGED << attempt, downloads >>
    /\ UNCHANGED << browser, proc, run, args, idx, processed_count, fs,
                    scratch, outcome, lastCheck, audit, poll >>

NextCollect ==
    \/ DownloadLands
    \/ ClearDownloadCart
    \/ ClearDownloadDir
    \/ StepClick
    \/ StepPortal
    \/ StepSnapshot
    \/ AddDocumentsToCart
    \/ BatchSnapshot
    \/ BatchClick
    \/ CollectWaitPoll
    \/ CollectWaitTimesOut
    \/ CollectCheck

SpecCollect == InitCollect /\ [][NextCollect]_vars

(***************************************************************************)
(* validate_product_dir run again on the directory it has just left.       *)
(***************************************************************************)
\* the number of runs of validate_product_dir on the directory
MaxAuditRuns == 2

\* a saved error page larger than the documents
HtmlHuge == Data(3000, "<htm", FALSE, <<>>, 700)

\* the files a marked product directory may hold before the first run
ReauditSlots(code) == <<
    Slot(code \o SfxCatalog \o ExtPdf, {PdfBig, HtmlPage}),
    Slot(<<"o","l","d","_">> \o code \o SfxCatalog \o ExtPdf,
         {PdfBig, HtmlHuge}),
    Slot(code \o SfxManual \o ExtPdf, {PdfBig, EmptyFile}),
    Slot(code \o SfxDXF \o ExtZip,
         { ZipOf(<<NameXDxf>>), ZipOf(<<NameNestedDxf, NameReadme>>),
           RarData }) >>

ReauditDirPool(code) ==
    { [exists |-> TRUE,
       files |-> Put(Put(Put(m, code \o SfxDimension \o ExtPdf, PdfBig),
                         code \o SfxSTEP \o ExtZip, ZipOf(<<NameStp>>)),
                     MarkerName, MarkerData),
       imgdir |-> has_image,
       images |-> IF has_image
                  THEN Put(EmptyMap, code \o ExtPng,
                           Data(500, "PNG.", FALSE, <<>>, 500))
                  ELSE EmptyMap] :
      m \in ListingsOf(ReauditSlots(code)), has_image \in BOOLEAN }

InitReaudit ==
    /\ run = 1
    /\ args = [overwrite |-> FALSE, max_products |-> 0]
    /\ pc = "reaudit"
    /\ idx = 1
    /\ processed_count = 0
    /\ attempt = 0
    /\ fs \in [ProductSet -> ReauditDirPool(Products[1])]
    /\ scratch = <<>>
    /\ downloads = <<>>
    /\ outcome = [c \in ProductSet |-> "none"]
    /\ lastCheck = NoCheck
    /\ audit = [before |-> fs, results |-> <<>>]
    /\ poll = NoPoll
    /\ browser = NoBrowser
    /\ proc = NoProc

\* validate_product_dir(prod_dir) on the marked directory (line 193): the
\* result is recorded together with the listing the run started from
ValidateAgain ==
    /\ pc = "reaudit"
    /\ Len(audit.results) < MaxAuditRuns
    /\ IsMarked(fs[Current])
    /\ \E res \in validate_product_dir(fs[Current], Current) :
          /\ fs' = [fs EXCEPT ![Current] = res.dir]
          /\ audit' = [audit EXCEPT
                         !.results =
                            Append(@, res @@ [started |-> fs[Current].files])]
    /\ UNCHANGED << browser, proc, run, args, pc, idx, processed_count,
                    attempt, scratch, downloads, outcome, lastCheck, poll >>

\* the runs are over
ReauditReturn ==
    /\ pc = "reaudit"
    /\ Len(audit.results) >= MaxAuditRuns
    /\ pc' = "reaudit_done"
    /\ UNCHANGED << browser, proc, run, args, idx, processed_count, attempt,
                    fs, scratch, downloads, outcome, lastCheck, audit, poll >>

NextReaudit ==
    \/ ValidateAgain
    \/ ReauditReturn

SpecReaudit == InitReaudit /\ [][NextReaudit]_vars

(***************************************************************************)
(* Properties.                                                             *)
(***************************************************************************)
\* the product whose handling the loop of crawl has just finished
Handled(c) == pc = "crawl" /\ idx > 1 /\ c = Products[idx - 1]

HasMarker(c) == MarkerName \in DOMAIN fs[c].files

\* the completeness rule holds of the directory of c
Complete(c) == \A v \in required_files_present(fs[c], c) : v.ok

PdfSlotNames(c) == { c \o <<"_","C","a","t","a","l","o","g",".","p","d","f">>,
                     c \o <<"_","D","i","m","e","n","s","i","o","n",".","p","d","f">>,
                     c \o <<"_","D","a","t","a","s","h","e","e","t",".","p","d","f">>,
                     c \o <<"_","M","a","n","u","a","l",".","p","d","f">> }

CadSlotNames(c) == { c \o <<"_","D","X","F",".","z","i","p">>,
                     c \o <<"_","S","T","E","P",".","z","i","p">> }

\* C1: when both attempts of process_product end with a failed completeness
\* check, the product directory is gone when it returns and it returns
\* false; it returns true only when the check confirmed completeness.
C1_TwoFailuresDiscardAndFail ==
    \A c \in ProductSet :
        Handled(c) /\ outcome[c] \in {"skipped", "norow", "true"} =>
            /\ attempt = 2 => ~fs[c].exists /\ outcome[c] # "true"
            /\ outcome[c] = "true" => lastCheck.ok

\* C2: once the loop of crawl is done with a product whose acquisition was
\* started (process_product returned or raised), its directory carries the
\* marker and is complete, or does not exist.
C2_MarkedCompleteOrAbsent ==
    \A c \in ProductSet :
        Handled(c) /\ outcome[c] \in {"norow", "true", "raised"} =>
            \/ ~fs[c].exists
            \/ HasMarker(c) /\ Complete(c)

\* C3: whenever process_product has returned, a product directory that
\* holds the marker satisfies the completeness rule, also after a run with
\* --overwrite over a directory marked by an earlier run.
C3_MarkerImpliesComplete ==
    \A c \in ProductSet :
        Handled(c) /\ outcome[c] \in {"skipped", "norow", "true"} =>
            (HasMarker(c) => Complete(c))

\* C7: no acquisition step leaves a file without the %PDF signature at a
\* PDF-category canonical path of a product directory.
C7_PdfSlotsHoldPdf ==
    \A c \in ProductSet :
        \A n \in DOMAIN fs[c].files :
            n \in PdfSlotNames(c) => fs[c].files[n].head = "%PDF"

\* C8: a PDF-category file that the completeness check of an attempt found
\* to fail the signature test no longer exists when that check is over.
C8_InvalidPdfDeletedOnDetection ==
    pc \in {"lookup1", "finish"} /\ lastCheck.why = "notpdf" =>
        lastCheck.file \notin DOMAIN fs[Current].files

\* C9: every file at a CAD-category canonical path is a zip archive, and a
\* bare CAD file is promoted to an archive of exactly one entry.
C9_CadSlotsHoldZip ==
    /\ \A c \in ProductSet :
          \A n \in DOMAIN fs[c].files :
              n \in CadSlotNames(c) => fs[c].files[n].zip
    /\ \A c \in ProductSet, r \in RawPool \cup CadDownloads :
          LET after == distribute_file(r, c, EmptyMap)
          IN  \A n \in DOMAIN after :
                 /\ n \in CadSlotNames(c)
                 /\ Lower(PathSuffix(r.name)) \notin {ExtZip, ExtGz, ExtRar}
                 => Len(after[n].entries) = 1

\* C10: every regular file directly inside a product directory is the
\* marker or is named <code><suffix><ext> for one of the six categories,
\* so a directory holds at most one file per category.
C10_OnlyCanonicalNames ==
    \A c \in ProductSet :
        /\ DOMAIN fs[c].files \subseteq
              PdfSlotNames(c) \cup CadSlotNames(c) \cup {MarkerName}
        /\ \A sfx \in { SfxCatalog \o ExtPdf, SfxDimension \o ExtPdf,
                        SfxDatasheet \o ExtPdf, SfxManual \o ExtPdf,
                        SfxDXF \o ExtZip, SfxSTEP \o ExtZip } :
              Cardinality(MatchingFiles(fs[c].files, sfx)) <= 1

\* C10 witness: a run with --overwrite over a marked directory has written
\* documents again and stands at the check of its second attempt
C10_Witness ==
    /\ run = 2
    /\ args.overwrite
    /\ pc = "check"
    /\ attempt = 1
    /\ HasMarker(Current)
    /\ Cardinality(DOMAIN fs[Current].files) >= 5

\* the directory the check of SpecRFP was applied to
Checked == fs[Products[1]]

RequiredThree == { <<"_","C","a","t","a","l","o","g",".","p","d","f">>,
                   <<"_","D","i","m","e","n","s","i","o","n",".","p","d","f">>,
                   <<"_","D","X","F",".","z","i","p">> }

OptionalThree == { <<"_","M","a","n","u","a","l",".","p","d","f">>,
                   <<"_","S","T","E","P",".","z","i","p">>,
                   <<"_","D","a","t","a","s","h","e","e","t",".","p","d","f">> }

IsPdfSuffix(sfx) == EndsWith(sfx, <<".","p","d","f">>)

\* C4: _required_files_present never returns true while a file of a
\* required category is under 1000 bytes or fails its format check (%PDF
\* signature for a PDF category, a non-empty archive for a zip category),
\* whichever of the files matching the suffix it is.
C4_NoTrueWithBadRequiredFile ==
    pc = "rfp_done" /\ lastCheck.ok =>
        \A sfx \in RequiredThree :
            \A n \in MatchingFiles(Checked.files, sfx) :
                /\ Checked.files[n].size >= 1000
                /\ IF IsPdfSuffix(sfx)
                   THEN Checked.files[n].head = "%PDF"
                   ELSE Checked.files[n].zip /\ Checked.files[n].entries # <<>>

\* C5: _required_files_present reports incomplete whenever Catalog,
\* Dimension or DXF is absent or Images/ holds no file over 1000 bytes; it
\* never reports a missing file for Manual, STEP or Datasheet, and a
\* directory of just a valid Catalog, Dimension, DXF and image is complete.
C5_RequiredAndOptional ==
    pc = "rfp_done" =>
        /\ (   (\E sfx \in RequiredThree : MatchingFiles(Checked.files, sfx) = {})
            \/ ~(\E n \in DOMAIN Checked.images : Checked.images[n].size > 1000))
           => ~lastCheck.ok
        /\ lastCheck.why = "missing" => lastCheck.file \in RequiredThree
        /\ (   /\ DOMAIN Checked.files = { Products[1] \o sfx : sfx \in RequiredThree }
               /\ \A n \in DOMAIN Checked.files :
                     /\ Checked.files[n].size >= 1000
                     /\ n \in PdfSlotNames(Products[1])
                        => Checked.files[n].head = "%PDF"
                     /\ n \in CadSlotNames(Products[1])
                        => Checked.files[n].zip /\ Checked.files[n].entries # <<>>
               /\ \E n \in DOMAIN Checked.images : Checked.images[n].size > 1000)
           => lastCheck.ok

\* C5 witness: the check has passed a directory that holds a Catalog, a
\* Dimension and a DXF file and none of Manual, STEP and Datasheet
C5_Witness ==
    /\ pc = "rfp_done"
    /\ lastCheck.ok
    /\ DOMAIN Checked.files = { Products[1] \o sfx : sfx \in RequiredThree }

\* C6: _required_files_present does not return true while a Manual, STEP
\* or Datasheet file of the directory is under 1000 bytes or, for Manual
\* and Datasheet, lacks the %PDF signature.
C6_OptionalCheckedIfPresent ==
    pc = "rfp_done" /\ lastCheck.ok =>
        \A sfx \in OptionalThree :
            \A n \in MatchingFiles(Checked.files, sfx) :
                /\ Checked.files[n].size >= 1000
                /\ IsPdfSuffix(sfx) => Checked.files[n].head = "%PDF"

\* the archive clean_zip is called on, as it is now and as call k found it
CleanedZip == fs[Products[1]].files[ZipPathOf(Products[1], audit.mode)]
ZipBeforeCall(k) == audit.calls[k].before[ZipPathOf(Products[1], audit.mode)]

\* C11: a second call of clean_zip right after a first one returns
\* changed = false and leaves the entry set of the archive as the first
\* call left it, for either mode.
C11_CleanZipIdempotent ==
    pc = "clean_zip" /\ Len(audit.calls) >= 2 =>
        /\ ~audit.calls[2].changed
        /\ Range(CleanedZip.entries) = Range(ZipBeforeCall(2).entries)

\* C11 witness: the second call has returned after a first call that
\* rebuilt the archive
C11_Witness ==
    /\ pc = "clean_zip"
    /\ Len(audit.calls) >= 2
    /\ audit.calls[1].changed
    /\ Range(ZipBeforeCall(1).entries) # Range(ZipBeforeCall(2).entries)

\* C12: after clean_zip on an intact archive with at least one entry of
\* the target kind, the archive holds only entries of that kind, each
\* named by a bare base name, and the kept list is the list of the entry
\* names stored in the archive.
C12_CleanZipFlatMatchingKept ==
    /\ pc = "clean_zip"
    /\ Len(audit.calls) = 1
    /\ ZipBeforeCall(1).zip
    /\ BadCrc(ZipBeforeCall(1)) = {}
    /\ target_members(ZipBeforeCall(1).entries, audit.mode) # <<>>
    => /\ \A m \in Range(CleanedZip.entries) :
             IsTargetMember(m, audit.mode) /\ PathName(m) = m
       /\ audit.calls[1].kept = CleanedZip.entries

\* C13: when no entry of the archive is of the target kind, or the file is
\* no zip, or the bytes of an entry that would be kept are damaged,
\* clean_zip returns changed = false and an empty kept list and leaves the
\* directory, the archive included, as it found it.
C13_NothingKeptLeavesUntouched ==
    /\ pc = "clean_zip"
    /\ Len(audit.calls) = 1
    /\ \/ ~ZipBeforeCall(1).zip
       \/ target_members(ZipBeforeCall(1).entries, audit.mode) = <<>>
       \/ \E m \in Range(target_members(ZipBeforeCall(1).entries, audit.mode)) :
             ReadFails(ZipBeforeCall(1), m)
    => /\ ~audit.calls[1].changed
       /\ audit.calls[1].kept = <<>>
       /\ fs[Products[1]].files = audit.calls[1].before

\* the directories the audit pass has entered
Audited == { c \in ProductSet : pc = "audit_done" /\ IsMarked(audit.before[c]) }

\* the entry of all_results for an audited directory
ResultOf(c) == CHOOSE r \in Range(audit.results) : r.product = c

\* C14: for every suffix that N >= 1 files of an audited directory end
\* with, after the deduplication step exactly one file with that suffix
\* remains, its size is the largest of the N sizes, and the suffix is in
\* the removed list when N > 1.
C14_DedupKeepsLargest ==
    \A c \in Audited :
        \A sfx \in Range(AUDIT_SUFFIXES) :
            LET had == MatchingFiles(audit.before[c].files, sfx)
                left == MatchingFiles(ResultOf(c).deduped, sfx)
            IN  had # {} =>
                  /\ Cardinality(left) = 1
                  /\ \A n \in left :
                        /\ n \in had
                        /\ ResultOf(c).deduped[n] = audit.before[c].files[n]
                        /\ \A q \in had :
                              audit.before[c].files[q].size
                                 <= ResultOf(c).deduped[n].size
                  /\ Cardinality(had) > 1 =>
                        \E f \in ResultOf(c).fixed :
                           f[1] = "duplicates" /\ sfx \in f[2]

\* C14 witness: a directory held two files of one suffix and of different
\* sizes when the audit entered it
C14_Witness ==
    \E c \in Audited :
        \E sfx \in Range(AUDIT_SUFFIXES) :
            \E p, q \in MatchingFiles(audit.before[c].files, sfx) :
                audit.before[c].files[p].size < audit.before[c].files[q].size

\* C15: validate_product_dir reports a missing required suffix exactly for
\* the categories the crawler requires, Catalog, Dimension and DXF, when
\* no file of the category is present.
C15_AuditRequiresCrawlerSchema ==
    \A c \in Audited :
        \A sfx \in Range(AUDIT_SUFFIXES) :
            Issue("missing", sfx) \in ResultOf(c).issues
            <=> /\ sfx \in RequiredThree
                /\ MatchingFiles(audit.before[c].files, sfx) = {}

\* C16: validate_product_dir reports the image issue exactly when the
\* image condition of _required_files_present fails, that is when Images/
\* holds no file larger than 1000 bytes.
C16_AuditImageRuleIsCrawlerRule ==
    \A c \in Audited :
        Issue("image", <<>>) \in ResultOf(c).issues
        <=> ~ImagePresent(audit.before[c])

\* C17: the audit pass leaves every directory without the marker as it
\* was, the marker exists after the pass exactly if it existed before, and
\* no product directory is removed.
C17_AuditFrame ==
    pc = "audit_done" =>
        \A c \in ProductSet :
            /\ MarkerName \notin DOMAIN audit.before[c].files
                  => fs[c] = audit.before[c]
            /\ MarkerName \in DOMAIN fs[c].files
                  <=> MarkerName \in DOMAIN audit.before[c].files
            /\ fs[c].exists = audit.before[c].exists

\* C17 witness: the pass has rewritten or deleted files of a marked
\* directory
C17_Witness ==
    \E c \in Audited :
        /\ fs[c] # audit.before[c]
        /\ MarkerName \in DOMAIN fs[c].files

\* the files a poll of wait_for_download finds new, and the in-progress
\* markers it finds
NewNow == new_files(scratch, poll.existing)
MarkersNow == cr_downloads(scratch)

C20_TimeoutKeepsRetry ==
    \A c \in ProductSet :
        Handled(c) /\ outcome[c] = "raised" /\ poll.at = "timeout" =>
            attempt = 1

\* the rules of classification in their fixed order, each with the
\* category it gives, for a file name and a product code
ClassRules(name, code) ==
    LET n == Lower(name)
        kw == { i \in 1..Len(DOWNLOAD_KEYWORDS) :
                  Contains(n, DOWNLOAD_KEYWORDS[i].kw) }
    IN  << [hit |-> kw # {},
            cat |-> IF kw = {} THEN <<>>
                    ELSE DOWNLOAD_KEYWORDS[SetMin(kw)].suffix
                         \o DOWNLOAD_KEYWORDS[SetMin(kw)].ext],
           [hit |-> StartsWith(n, <<"c","_">>), cat |-> SfxCatalog \o ExtPdf],
           [hit |-> StartsWith(n, <<"d","_">>), cat |-> SfxDimension \o ExtPdf],
           [hit |-> StartsWith(n, <<"m","_">>), cat |-> SfxManual \o ExtPdf],
           [hit |-> Contains(n, KwDatasheet) \/ Contains(n, KwDataDashSheet),
            cat |-> SfxDatasheet \o ExtPdf],
           [hit |-> looks_like_dimension(n, code),
            cat |-> SfxDimension \o ExtPdf],
           [hit |-> Contains(n, Lower(code)) /\ EndsWith(n, ExtPdf),
            cat |-> SfxDatasheet \o ExtPdf],
           [hit |-> EndsWith(n, ExtStp) \/ EndsWith(n, ExtStepLong),
            cat |-> SfxSTEP \o ExtZip] >>

\* the category of the first rule that matches, <<>> when none does
FirstRuleCategory(name, code) ==
    LET rules == ClassRules(name, code)
        hits == { i \in 1..Len(rules) : rules[i].hit }
    IN  IF hits = {} THEN <<>> ELSE rules[SetMin(hits)].cat

\* C27: the category distribute_file gives a file depends on its name and
\* the product code only and is the category of the first matching rule of
\* the fixed order; a file no rule matches writes nothing, any other file
\* is written to the canonical path of that category and nowhere else.
C27_ClassificationFirstRuleWins ==
    pc = "distributed" =>
        LET name == scratch[1].name
            want == FirstRuleCategory(name, Products[1])
            got == Classify(name, Products[1])
        IN  /\ want = <<>> <=> got = NoEntry
            /\ got # NoEntry => got.suffix \o got.ext = want
            /\ DOMAIN fs[Products[1]].files \subseteq { Products[1] \o want }
            /\ want = <<>> => fs[Products[1]].files = EmptyMap
            /\ /\ want # <<>>
               /\ EndsWith(want, ExtPdf) => is_pdf(scratch[1].data)
               => DOMAIN fs[Products[1]].files = { Products[1] \o want }

\* C27 witness: a file whose name holds a keyword and starts with the
\* prefix of another category has been written to the keyword's category
C27_Witness ==
    /\ pc = "distributed"
    /\ StartsWith(Lower(scratch[1].name), <<"c","_">>)
    /\ Contains(Lower(scratch[1].name), KwManual)
    /\ DOMAIN fs[Products[1]].files = { Products[1] \o SfxManual \o ExtPdf }

\* the steps of an acquisition attempt of process_product
AttemptSteps == {"lookup1", "image", "manual", "lookup2", "cad", "batch",
                 "transform", "check"}

\* C28: process_product runs at most two attempts, and once the check at
\* the end of an attempt has passed, no attempt is started and nothing of
\* the product directory changes except that the marker is written.
C28_AtMostTwoAttemptsThenOnlyMarker ==
    /\ [](attempt <= 2 /\ (pc \in AttemptSteps => attempt <= 1))
    /\ [][ (pc = "finish" /\ lastCheck.ok) =>
             /\ pc' = "crawl"
             /\ outcome'[Products[idx]] = "true"
             /\ fs' = [fs EXCEPT ![Products[idx]].files =
                         Put(@, MarkerName, MarkerData)] ]_vars

\* C28 witness: process_product has returned with the marker written after
\* the check failed on the first attempt and passed on the second
C28_Witness ==
    \E c \in ProductSet :
        /\ Handled(c)
        /\ outcome[c] = "true"
        /\ attempt = 1
        /\ lastCheck.ok
        /\ HasMarker(c)

\* C29: when a row lookup of an attempt does not find the product's row,
\* process_product returns false at once: nothing is downloaded into the
\* scratch directory in between, the product directory is gone and with it
\* any marker, and the product is not counted.
C29_NoRowDiscardsAndFails ==
    /\ [](\A c \in ProductSet :
            Handled(c) /\ outcome[c] = "norow" =>
               ~fs[c].exists /\ ~HasMarker(c))
    /\ [][ (pc \in {"lookup1", "lookup2"} /\ pc' = "crawl"
               /\ outcome'[Products[idx]] = "norow") =>
             /\ ~fs'[Products[idx]].exists
             /\ scratch' = scratch
             /\ downloads' = downloads
             /\ processed_count' = processed_count ]_vars

\* C29 witness: the row was not found in the second attempt, after the
\* first attempt had downloaded into the scratch directory
C29_Witness ==
    \E c \in ProductSet :
        /\ Handled(c)
        /\ outcome[c] = "norow"
        /\ attempt = 1
        /\ scratch # <<>>

\* C21: an exception other than an interrupt raised while a product is
\* processed never ends the run: main returns 1 only for a failure of the
\* login or of a series listing, and a run that returns 0 without a limit
\* on the number of products has called process_product for every product
\* of every series.
C21_BadProductDoesNotSinkRun ==
    /\ pc = "exited" /\ proc.exit = 1 => proc.why \in {"login", "series"}
    /\ pc = "exited" /\ proc.exit = 0 /\ args.max_products = 0 =>
          \A i \in 1..Len(CrawlProducts) : outcome[i] \notin {"none", "started"}

\* C21 witness: the run has returned 0 after the first product raised and
\* the last product of the last series was processed
C21_Witness ==
    /\ pc = "exited"
    /\ proc.exit = 0
    /\ outcome[1] = "raised"
    /\ outcome[Len(CrawlProducts)] = "true"

\* C22: once an interrupt has been raised while a product is processed,
\* also inside a best-effort step, no further product is started, main
\* returns 2, the driver is quit and the scratch directory is removed
\* unless keep-downloads is set.
C22_InterruptPropagatesAndShutsDown ==
    proc.signal =>
        /\ pc = "exited"
        /\ proc.exit = 2
        /\ proc.driver = "quit"
        /\ ~args.keep_downloads => ~proc.scratch_dir
        /\ \A i \in 1..Len(CrawlProducts) : i > idx => outcome[i] = "none"

\* C23: while the crawler waits for a download, no file written by the
\* download that this wait was triggered for is in the wait's ignore set.
C23_SnapshotBeforeTrigger ==
    (pc \in {"step_wait", "batch_wait"}) =>
        \A i \in 1..Len(scratch) :
            scratch[i].by = Download(poll.label, attempt) =>
                scratch[i].name \notin poll.existing

\* C24: the file the batch wait returned was written by the batch download
\* of the current attempt.
C24_BatchArtifactIsFromBatchTrigger ==
    (pc = "check") =>
        downloads[Len(downloads)].by = Download("batch", attempt)

\* C25: once fetch_step_file has detected the new tab and control is back
\* in collect_required_documents or beyond, that tab is closed and the
\* driver is on the main tab.
C25_SecondaryTabClosedOnEveryExit ==
    (pc \notin {"clear_cart", "clear_dir", "step_click", "step_portal",
                "step_snapshot", "step_wait"}
       /\ browser.step_tab # "none") =>
        /\ browser.step_tab \notin browser.window_handles
        /\ browser.current = MainTab

C30_CartHoldsOnlyCurrentDocuments ==
    (pc = "batch_click") => browser.cart \subseteq {CartDoc(attempt)}

\* the files of a listing that belong to a PDF category and carry the
\* %PDF signature
ValidCopies(files, sfx) ==
    { n \in DOMAIN files : EndsWith(n, sfx) /\ is_pdf(files[n]) }

\* C31: for every run of validate_product_dir on a marked directory and
\* every PDF category, when the directory held a file of the category with
\* the %PDF signature before the run, it holds one after the run.
C31_AuditKeepsAValidCopy ==
    \A i \in 1..Len(audit.results) :
        \A sfx \in AUDIT_PDF_SUFFIXES :
            ValidCopies(audit.results[i].started, sfx) # {} =>
                ValidCopies(audit.results[i].dir.files, sfx) # {}

\* C32: a second run of validate_product_dir right after the first one
\* applies no fix, leaves every file as it is, and reports the status and
\* the issues of the first run.
C32_SecondAuditRunChangesNothing ==
    (Len(audit.results) >= 2) =>
        /\ audit.results[2].fixed = {}
        /\ audit.results[2].dir = audit.results[1].dir
        /\ audit.results[2].status = audit.results[1].status
        /\ audit.results[2].issues = audit.results[1].issues

====
